---------------------------- MODULE Spec2Model ----------------------------
(***************************************************************************)
(* A model of circ::FastCircularQueue<T, SizeType> (circular_buffer.h).    *)
(*                                                                         *)
(* SizeType is an unsigned integer of IndexBits bits that is at least as   *)
(* wide as int (the default uint32_t, or size_t), so every expression on   *)
(* mask_, start_ and stop_ is evaluated modulo 2^IndexBits.  T is an       *)
(* object of esize bytes that is moved and copied bytewise (the class      *)
(* itself moves elements with realloc and memcpy).  The backing storage is *)
(* a sequence of bytes, so that a byte count and an element count are      *)
(* different things.                                                       *)
(*                                                                         *)
(* The k-th successful push_back stores the element Elem(k): the container *)
(* never inspects an element, so tagging each pushed element with its      *)
(* rank loses no behaviour of the container.                               *)
(***************************************************************************)
EXTENDS Integers, Sequences, FiniteSets, TLC

\* Width in bits of SizeType in the model.
IndexBits == 3
\* sizeof(T) ranges over 1 .. MaxElemSize.
MaxElemSize == 2
\* Number of successful push_back calls in one behaviour of Spec.
MaxPush == 4
\* Number of successful push_back calls in one behaviour of SpecLife.
LifePush == 3
\* Number of reads outside an allocation after which a behaviour goes on.
MaxWild == 1

Wrap == 2^IndexBits

\* The queue objects of a behaviour; allocation a is the block first
\* obtained for object a (by the constructor, or by the copy constructor).
Objs == {1, 2}

\* An indeterminate byte (never written, or outside every allocation).
Junk == 0

VARIABLES
    esize,      \* sizeof(T)
    oom,        \* whether malloc/realloc may fail in this behaviour
    life,       \* per object: "none", "live", "released" (after free()), "gone"
    mask_,      \* per object: the member mask_
    start_,     \* per object: the member start_
    stop_,      \* per object: the member stop_
    data_,      \* per object: the member data_ (0 is nullptr, else an allocation)
    heap,       \* per allocation: [bytes, frees]
    npush,      \* number of successful push_back calls so far
    live,       \* per object: the elements pushed and not yet popped or cleared
    shape,      \* shape of the call sequence on object 1 so far
    nret,       \* number of pops of the "fifo" or "lifo" phase so far
    last,       \* the last call: [op, obj, err, ret, grew, arg]
    ngrow,      \* number of growths triggered by push_back so far
    ub,         \* a write outside an allocation has happened
    wild,       \* number of calls that read outside an allocation
    hung        \* a loop of the class runs forever

vars == <<esize, oom, life, mask_, start_, stop_, data_, heap, npush, live,
          shape, nret, last, ngrow, ub, wild, hung>>

---------------------------------------------------------------------------
(* Arithmetic of SizeType *)

\* Conversion to SizeType.
Trunc(x) == ((x % Wrap) + Wrap) % Wrap

RECURSIVE BitAnd(_, _)
BitAnd(a, b) ==
    IF a = 0 \/ b = 0 THEN 0
    ELSE (a % 2) * (b % 2) + 2 * BitAnd(a \div 2, b \div 2)

RECURSIVE BitOr(_, _)
BitOr(a, b) ==
    IF a = 0 THEN b
    ELSE IF b = 0 THEN a
    ELSE (IF a % 2 = 1 \/ b % 2 = 1 THEN 1 ELSE 0)
         + 2 * BitOr(a \div 2, b \div 2)

Shr(x, k) == x \div (2^k)

roundup(x) ==
    LET x0 == Trunc(x - 1)
        x1 == BitOr(x0, Shr(x0, 1))
        x2 == BitOr(x1, Shr(x1, 2))
        x3 == BitOr(x2, Shr(x2, 4))
        x4 == IF IndexBits > 8 THEN BitOr(x3, Shr(x3, 8)) ELSE x3
        x5 == IF IndexBits > 16 THEN BitOr(x4, Shr(x4, 16)) ELSE x4
        x6 == IF IndexBits > 32 THEN BitOr(x5, Shr(x5, 32)) ELSE x5
    IN  Trunc(x6 + 1)

---------------------------------------------------------------------------
(* Elements and raw memory *)

\* The object representation of the k-th pushed element (k = 0: a value
\* that was never pushed).
Elem(k) == [j \in 1..esize |-> 10 * k + j]

JunkElem == [j \in 1..esize |-> Junk]

\* malloc(n): n indeterminate bytes.
malloc(n) == [i \in 1..n |-> Junk]

\* realloc(mem, n): the first min(old, n) bytes are kept.
realloc(mem, n) == [i \in 1..n |-> IF i <= Len(mem) THEN mem[i] ELSE Junk]

\* The byte at offset off of a block; outside the block it is indeterminate.
Load(mem, off) == IF off >= 0 /\ off < Len(mem) THEN mem[off + 1] ELSE Junk

\* std::memcpy(dst + doff, src + soff, cnt) on byte offsets.  Bytes written
\* past the end of dst land outside the block.
memcpy(dst, doff, src, soff, cnt) ==
    [i \in 1..Len(dst) |->
        IF i > doff /\ i <= doff + cnt
        THEN Load(src, soff + (i - 1 - doff))
        ELSE dst[i]]

\* An access of cnt bytes at offset off that leaves a block of len bytes.
Overrun(len, off, cnt) == cnt > 0 /\ off + cnt > len

\* data_[ind] as an rvalue.
LoadElem(mem, ind) == [j \in 1..esize |-> Load(mem, ind * esize + j - 1)]

\* new(data_ + ind) T(...) / data_[ind] = e.
StoreElem(mem, ind, e) ==
    [i \in 1..Len(mem) |->
        IF i > ind * esize /\ i <= ind * esize + esize
        THEN e[i - ind * esize]
        ELSE mem[i]]

Indeterminate(e) == \E j \in 1..Len(e) : e[j] = Junk

\* What reading e can yield: e itself, or, when e is indeterminate, any
\* value; two distinct ones stand for them (one that was never pushed, and
\* the one pushed last), so that no statement "the value read is x" holds of
\* every outcome.
Outcomes(e) ==
    IF Indeterminate(e) THEN {Elem(0), Elem(npush)} ELSE {e}

---------------------------------------------------------------------------
(* The member functions, as functions of the object's members.  A view is  *)
(* [mask, start, stop, mem, err, ub, wild, ret]: the three indices, the    *)
(* bytes of the block data_ points to, the exception thrown ("none" if     *)
(* none), whether the call wrote (ub) or read (wild) outside a block, and  *)
(* the value returned.                                                     *)

View(q) ==
    [mask |-> mask_[q], start |-> start_[q], stop |-> stop_[q],
     mem |-> IF data_[q] = 0 THEN <<>> ELSE heap[data_[q]].bytes,
     err |-> "none", ub |-> FALSE, wild |-> FALSE, ret |-> <<>>]

Throw(v, e) == [v EXCEPT !.err = e]

\* size()
size(v) == BitAnd(Trunc(v.stop - v.start), v.mask)

\* capacity()
capacity(v) == v.mask

\* The constructor's mask_.
InitMask(n) == Trunc(roundup(Trunc(n + 1)) - 1)

\* The number of slots the constructor allocates.
InitSlots(n) == Trunc(InitMask(n) + 1)

\* A variant of NewMask that shifts by two: the capacity is quadrupled.
NewMaskQuad(mask) == Trunc(Trunc(Trunc(mask + 1) * 4) - 1)

\* resize's last statement: mask_ = ((mask_ + 1) << 1) - 1.
NewMask(mask) == Trunc(Trunc(Trunc(mask + 1) * 2) - 1)

\* resize's relinearization of an empty queue with start_ != 0.
ResizeEmptyOffset(v, d1, ok2) ==
    LET stop1 == Trunc(v.mask + 1)
        gap   == Trunc(stop1 - v.start)
        tmp0  == malloc(stop1 * esize)
        tmp1  == memcpy(tmp0, 0, d1, v.start * esize, gap * esize)
        tmp2  == memcpy(tmp1, gap * esize, d1, 0, stop1 * esize)
        d2    == memcpy(d1, 0, tmp2, 0, stop1 * esize)
    IN  IF ~ok2
        THEN [v EXCEPT !.stop = stop1, !.mem = d1,
                       !.err = "AllocationFailure"]
        ELSE [v EXCEPT !.start = 0, !.stop = stop1, !.mem = d2,
                       !.mask = NewMask(v.mask),
                       !.wild = \/ Overrun(Len(d1), v.start * esize, gap * esize)
                                \/ Overrun(Len(d1), 0, stop1 * esize)
                                \/ Overrun(Len(tmp0), 0, stop1 * esize),
                       !.ub = \/ Overrun(Len(tmp0), 0, gap * esize)
                              \/ Overrun(Len(tmp0), gap * esize, stop1 * esize)
                              \/ Overrun(Len(d1), 0, stop1 * esize)]

\* The number of bytes resize copies back from the scratch buffer.
CopyBackBytes(sz) == sz

\* resize's relinearization of a wrapped queue (stop_ < start_).
ResizeWrapped(v, d1, ok2) ==
    LET slots == Trunc(v.mask + 1)
        head  == Trunc(slots - v.start)
        tmp0  == malloc(slots * esize)
        tmp1  == memcpy(tmp0, 0, d1, v.start * esize, head * esize)
        tmp2  == memcpy(tmp1, head * esize, d1, 0, v.stop * esize)
        sz    == BitAnd(Trunc(v.stop - v.start), v.mask)
        d2    == memcpy(d1, 0, tmp2, 0, CopyBackBytes(sz))
    IN  IF ~ok2
        THEN [v EXCEPT !.mem = d1, !.err = "AllocationFailure"]
        ELSE [v EXCEPT !.start = 0, !.stop = sz, !.mem = d2,
                       !.mask = NewMask(v.mask),
                       !.wild = \/ Overrun(Len(d1), v.start * esize, head * esize)
                                \/ Overrun(Len(d1), 0, v.stop * esize)
                                \/ Overrun(Len(tmp0), 0, CopyBackBytes(sz)),
                       !.ub = \/ Overrun(Len(tmp0), 0, head * esize)
                              \/ Overrun(Len(tmp0), head * esize, v.stop * esize)
                              \/ Overrun(Len(d1), 0, CopyBackBytes(sz))]

\* A variant of TooSmall that accepts any target that is at least half of
\* mask_.
TooSmallHalf(new_size, mask) == 2 * new_size < mask

\* A variant of TooSmall that lets the target 0 through.
TooSmallNonZero(new_size, mask) == new_size # 0 /\ new_size < mask

\* resize's test of its argument: new_size < mask_.
TooSmall(new_size, mask) == new_size < mask

\* resize(new_size); ok1 and ok2 say whether the realloc and the malloc of
\* the scratch buffer succeed.
resize(v, new_size, ok1, ok2) ==
    IF TooSmall(new_size, v.mask) THEN Throw(v, "InvalidResize")
    ELSE IF ~ok1 THEN Throw(v, "AllocationFailure")
    ELSE LET d1 == realloc(v.mem, roundup(new_size) * esize)
         IN  IF v.start = v.stop
             THEN IF v.start # 0
                  THEN ResizeEmptyOffset(v, d1, ok2)
                  ELSE [v EXCEPT !.mem = d1, !.mask = NewMask(v.mask)]
             ELSE IF v.stop < v.start
             THEN ResizeWrapped(v, d1, ok2)
             ELSE [v EXCEPT !.mem = d1, !.mask = NewMask(v.mask)]

\* push_back's test for a full queue.
IsFull(v) == BitAnd(Trunc(v.stop + 1), v.mask) = v.start

\* A variant of Insert that stores the element even when the growth threw.
InsertAlways(r, e) ==
    [r EXCEPT !.stop = BitAnd(Trunc(r.stop + 1), r.mask),
              !.mem = StoreElem(r.mem, r.stop, e),
              !.ub = r.ub \/ Overrun(Len(r.mem), r.stop * esize, esize)]

\* push_back's insertion, r being the view after the growth (if any):
\* ind = stop_; ++stop_; stop_ &= mask_; new(data_ + ind) T(...).
Insert(r, e) ==
    IF r.err # "none" THEN r
    ELSE [r EXCEPT !.stop = BitAnd(Trunc(r.stop + 1), r.mask),
                   !.mem = StoreElem(r.mem, r.stop, e),
                   !.ub = r.ub \/ Overrun(Len(r.mem), r.stop * esize, esize)]

\* The one element of a set of one element.
The(S) == CHOOSE x \in S : TRUE

\* push_back(e)
push_back(v, e, ok1, ok2) ==
    The({ Insert(r, e) :
            r \in { IF IsFull(v)
                    THEN resize(v, Trunc(Trunc(v.mask + 1) * 2), ok1, ok2)
                    ELSE v } })

\* A variant of PopSlot that increments first: data_[++start_].
PopSlotPre(start) == Trunc(start + 1)

\* The slot pop reads: data_[start_++].
PopSlot(start) == start

\* pop() and pop_front()
pop(v) ==
    IF v.stop = v.start THEN Throw(v, "EmptyQueue")
    ELSE [v EXCEPT !.ret = LoadElem(v.mem, PopSlot(v.start)),
                   !.wild = Overrun(Len(v.mem), PopSlot(v.start) * esize, esize),
                   !.start = BitAnd(Trunc(v.start + 1), v.mask)]

\* A variant of PopBackSlot that decrements afterwards: data_[stop_--].
PopBackSlotPost(stop) == stop

\* The slot pop_back reads: data_[--stop_].
PopBackSlot(stop) == Trunc(stop - 1)

\* pop_back()
pop_back(v) ==
    IF v.stop = v.start THEN Throw(v, "EmptyQueue")
    ELSE [v EXCEPT !.stop = Trunc(v.stop - 1),
                   !.ret = LoadElem(v.mem, PopBackSlot(v.stop)),
                   !.wild = Overrun(Len(v.mem), PopBackSlot(v.stop) * esize, esize),
                   !.start = BitAnd(v.start, v.mask)]

\* push_pop(e): pop(), then push(e); the value popped is returned.
push_pop(v, e, ok1, ok2) ==
    The({ IF p.err # "none" THEN p
          ELSE [push_back(p, e, ok1, ok2) EXCEPT !.ret = p.ret] :
            p \in {pop(v)} })

\* The slots visited by for(i = start_; i != stop_; ..., i++, i &= mask_),
\* at most fuel of them.
RECURSIVE Walk(_, _, _, _)
Walk(i, stop, mask, fuel) ==
    IF i = stop \/ fuel = 0 THEN <<>>
    ELSE <<i>> \o Walk(BitAnd(Trunc(i + 1), mask), stop, mask, fuel - 1)

\* Whether that loop ends: i only takes values in 0 .. mask.
LoopEnds(v) == Len(Walk(v.start, v.stop, v.mask, Wrap + 1)) <= Wrap

\* The elements of the slots in idx, in that order.
Gather(mem, idx) == [k \in 1..Len(idx) |-> LoadElem(mem, idx[k])]

\* Whether reading the slots in idx leaves the block.
Stray(mem, idx) ==
    \E k \in 1..Len(idx) : Overrun(Len(mem), idx[k] * esize, esize)

\* to_vector(): the loop for(i = start_; i != stop_; ret.emplace_back(...),
\* ++i, i &= mask_).  When the loop never ends the vector grows until its
\* allocation fails.
to_vector(v) ==
    IF ~LoopEnds(v) THEN Throw(v, "AllocationFailure")
    ELSE The({ [v EXCEPT !.ret = Gather(v.mem, idx),
                         !.wild = Stray(v.mem, idx)] :
                 idx \in {Walk(v.start, v.stop, v.mask, Wrap + 1)} })

\* for_each(func), when its loop ends: func is called on these elements.
for_each(v) ==
    The({ [v EXCEPT !.ret = Gather(v.mem, idx),
                    !.wild = Stray(v.mem, idx)] :
            idx \in {Walk(v.start, v.stop, v.mask, Wrap + 1)} })

\* iterator::operator++: ++pos_; pos_ &= ref_.mask_.
Advance(pos, mask) == BitAnd(Trunc(pos + 1), mask)

\* The positions of a cursor stepped from begin() until it equals end(), at
\* most fuel of them.
RECURSIVE Cursor(_, _, _, _)
Cursor(pos, stop, mask, fuel) ==
    IF pos = stop \/ fuel = 0 THEN <<>>
    ELSE <<pos>> \o Cursor(Advance(pos, mask), stop, mask, fuel - 1)

\* for(it = begin(); it != end(); ++it) use(*it), when the loop ends.
iterate(v) ==
    The({ [v EXCEPT !.ret = Gather(v.mem, idx),
                    !.wild = Stray(v.mem, idx)] :
            idx \in {Cursor(v.start, v.stop, v.mask, Wrap + 1)} })

\* The slot front() refers to: data_[start_].
FrontSlot(v) == v.start

\* The slot back() refers to: data_[stop_ - 1].
BackSlot(v) == Trunc(v.stop - 1)

\* front(), read through the reference returned.
front(v) ==
    [v EXCEPT !.ret = LoadElem(v.mem, FrontSlot(v)),
              !.wild = Overrun(Len(v.mem), FrontSlot(v) * esize, esize)]

\* back(), read through the reference returned.
back(v) ==
    [v EXCEPT !.ret = LoadElem(v.mem, BackSlot(v)),
              !.wild = Overrun(Len(v.mem), BackSlot(v) * esize, esize)]

\* clear(), when its loop ends.
clear(v) == [v EXCEPT !.start = 0, !.stop = 0]

\* The slots visited by the copy constructor's loop
\* for(i = other.start_; i != other.stop_; ..., ++i), which does not mask i.
RECURSIVE CopyWalk(_, _, _)
CopyWalk(i, stop, fuel) ==
    IF i = stop \/ fuel = 0 THEN {}
    ELSE {i} \cup CopyWalk(Trunc(i + 1), stop, fuel - 1)

\* FastCircularQueue(const FastCircularQueue &other): the view of the new
\* object, v being the view of other.
copy_construct(v, ok) ==
    LET slots   == Trunc(v.mask + 1)
        visited == CopyWalk(v.start, v.stop, Wrap)
        tmp     == malloc(slots * esize)
    IN  IF ~ok THEN Throw(v, "AllocationFailure")
        ELSE [v EXCEPT
                !.mem = [b \in 1..Len(tmp) |->
                           IF ((b - 1) \div esize) \in visited
                           THEN Load(v.mem, b - 1) ELSE tmp[b]],
                !.wild = \E i \in visited : Overrun(Len(v.mem), i * esize, esize),
                !.ub = \E i \in visited : Overrun(Len(tmp), i * esize, esize)]

\* What repeated pop_front calls return, until one throws EmptyQueue (at
\* most fuel calls).
RECURSIVE Drain(_, _)
Drain(v, fuel) ==
    IF v.start = v.stop \/ fuel = 0 THEN <<>>
    ELSE The({ <<p.ret>> \o Drain(p, fuel - 1) : p \in {pop(v)} })

Contents(q) == Drain(View(q), Wrap)

---------------------------------------------------------------------------
(* The state machine *)

\* Requested sizes n for which roundup(n + 1) is representable in SizeType.
Sizes == 0 .. (2^(IndexBits - 1) - 1)

\* Targets of an explicit resize.
Targets == 0 .. 2^(IndexBits - 1)

AllocOutcomes == IF oom THEN {TRUE, FALSE} ELSE {TRUE}

NoBlock == [bytes |-> <<>>, made |-> FALSE, frees |-> 0]

\* FastCircularQueue q(n), for every n and every element size.
InitWith(mayFail) ==
    \E n \in Sizes :
        /\ esize \in 1..MaxElemSize
        /\ oom = mayFail
        /\ life = [q \in Objs |-> IF q = 1 THEN "live" ELSE "none"]
        /\ mask_ = [q \in Objs |-> IF q = 1 THEN InitMask(n) ELSE 0]
        /\ start_ = [q \in Objs |-> 0]
        /\ stop_ = [q \in Objs |-> 0]
        /\ data_ = [q \in Objs |-> IF q = 1 THEN 1 ELSE 0]
        /\ heap = [a \in Objs |->
                     IF a = 1
                     THEN [bytes |-> malloc(InitSlots(n) * esize),
                           made |-> TRUE, frees |-> 0]
                     ELSE NoBlock]
        /\ npush = 0
        /\ live = [q \in Objs |-> <<>>]
        /\ shape = "push"
        /\ nret = 0
        /\ last = [op |-> "construct", obj |-> 1, err |-> "none", ret |-> <<>>,
                grew |-> FALSE, arg |-> 0]
        /\ ngrow = 0
        /\ ub = FALSE
        /\ wild = 0
        /\ hung = FALSE

Init == InitWith(FALSE)

\* The calls modelled are those on a constructed object that owns a block,
\* while the program is defined: a write outside every block (ub) or a loop
\* that never ends (hung) ends the behaviour.  A read outside every block
\* yields an indeterminate value and the behaviour goes on; it is followed
\* through MaxWild such reads.
Usable(q) ==
    life[q] = "live" /\ data_[q] # 0 /\ ~hung /\ ~ub /\ wild <= MaxWild

\* The shape of the call sequence after a call of op: "push" (only
\* push_back so far), "fifo" (pushes, then only pop_front), "lifo" (pushes,
\* then only pop_back), "mixed" (push_back, pop_front and pop_back in any
\* other order), "other" (any other call, even one that throws: a resize
\* that throws AllocationFailure may have moved stop_).  A push_back,
\* pop_front or pop_back that throws does not count.
ShapeAfter(op, ok) ==
    IF shape = "other" THEN shape
    ELSE IF op \notin {"push_back", "pop", "pop_back"} THEN "other"
    ELSE IF ~ok THEN shape
    ELSE IF op = "push_back" THEN (IF shape = "push" THEN "push" ELSE "mixed")
    ELSE IF op = "pop" THEN (IF shape \in {"push", "fifo"} THEN "fifo" ELSE "mixed")
    ELSE IF op = "pop_back" THEN (IF shape \in {"push", "lifo"} THEN "lifo" ELSE "mixed")
    ELSE "other"

\* The members of q and its block after a call that left the view r.
Commit(q, r, op, arg, ret) ==
    /\ mask_' = [mask_ EXCEPT ![q] = r.mask]
    /\ start_' = [start_ EXCEPT ![q] = r.start]
    /\ stop_' = [stop_ EXCEPT ![q] = r.stop]
    /\ heap' = [heap EXCEPT ![data_[q]].bytes = r.mem]
    /\ ub' = (ub \/ r.ub)
    /\ wild' = IF r.wild THEN wild + 1 ELSE wild
    /\ last' = [op |-> op, obj |-> q, err |-> r.err, ret |-> ret,
                grew |-> (op # "resize" /\ r.mask # mask_[q]), arg |-> arg]
    /\ ngrow' = IF op # "resize" /\ r.mask # mask_[q] THEN ngrow + 1 ELSE ngrow
    /\ shape' = ShapeAfter(op, r.err = "none")
    /\ nret' = IF ShapeAfter(op, r.err = "none") \in {"fifo", "lifo"}
               THEN (IF r.err = "none" THEN nret + 1 ELSE nret)
               ELSE 0
    /\ UNCHANGED <<esize, oom, life, data_, hung>>

\* Which allocations of a call fail if they are attempted: 1 the realloc,
\* 2 the malloc of the scratch buffer, 3 both.
Failing(ok1, ok2) == (IF ok1 THEN 0 ELSE 1) + (IF ok2 THEN 0 ELSE 2)

Front(s) == IF Len(s) = 0 THEN s ELSE Tail(s)
Chop(s) == IF Len(s) = 0 THEN s ELSE SubSeq(s, 1, Len(s) - 1)

PushBack(q, bound) ==
    /\ Usable(q)
    /\ npush < bound
    /\ \E ok1 \in AllocOutcomes, ok2 \in AllocOutcomes :
         \E r \in {push_back(View(q), Elem(npush + 1), ok1, ok2)} :
             /\ Commit(q, r, "push_back", Failing(ok1, ok2), <<>>)
             /\ npush' = IF r.err = "none" THEN npush + 1 ELSE npush
             /\ live' = IF r.err = "none"
                        THEN [live EXCEPT ![q] = Append(@, Elem(npush + 1))]
                        ELSE live

PopFront(q) ==
    /\ Usable(q)
    /\ \E r \in {pop(View(q))} :
           \E x \in (IF r.err = "none" THEN Outcomes(r.ret) ELSE {<<>>}) :
             /\ Commit(q, r, "pop", 0, x)
             /\ live' = IF r.err = "none"
                        THEN [live EXCEPT ![q] = Front(@)] ELSE live
             /\ UNCHANGED npush

PopBack(q) ==
    /\ Usable(q)
    /\ \E r \in {pop_back(View(q))} :
           \E x \in (IF r.err = "none" THEN Outcomes(r.ret) ELSE {<<>>}) :
             /\ Commit(q, r, "pop_back", 0, x)
             /\ live' = IF r.err = "none"
                        THEN [live EXCEPT ![q] = Chop(@)] ELSE live
             /\ UNCHANGED npush

PushPop(q, bound) ==
    /\ Usable(q)
    /\ npush < bound
    /\ \E ok1 \in AllocOutcomes, ok2 \in AllocOutcomes :
         \E r \in {push_pop(View(q), Elem(npush + 1), ok1, ok2)},
            popped \in {pop(View(q)).err = "none"} :
             \E x \in (IF popped THEN Outcomes(r.ret) ELSE {<<>>}) :
               /\ Commit(q, r, "push_pop", 0, x)
               /\ npush' = IF r.err = "none" THEN npush + 1 ELSE npush
               /\ live' = IF r.err = "none"
                          THEN [live EXCEPT ![q] = Append(Front(@), Elem(npush + 1))]
                          ELSE IF popped THEN [live EXCEPT ![q] = Front(@)]
                          ELSE live

Clear(q) ==
    /\ Usable(q)
    /\ IF LoopEnds(View(q))
       THEN /\ \E r \in {clear(View(q))} : Commit(q, r, "clear", 0, <<>>)
            /\ live' = [live EXCEPT ![q] = <<>>]
            /\ UNCHANGED npush
       ELSE /\ hung' = TRUE
            /\ last' = [op |-> "clear", obj |-> q, err |-> "none", ret |-> <<>>,
                grew |-> FALSE, arg |-> 0]
            /\ shape' = "other"
            /\ nret' = 0
            /\ UNCHANGED <<esize, oom, life, mask_, start_, stop_, data_, heap,
                           npush, live, ngrow, ub, wild>>

\* An explicit resize(t).  A target whose rounding is 0 asks realloc for
\* zero bytes; such calls are left out.
Resize(q) ==
    /\ Usable(q)
    /\ \E t \in Targets, ok1 \in AllocOutcomes, ok2 \in AllocOutcomes :
         /\ t < mask_[q] \/ roundup(t) # 0
         /\ \E r \in {resize(View(q), t, ok1, ok2)} :
                Commit(q, r, "resize", t, <<>>)
         /\ UNCHANGED <<npush, live>>

Next ==
    \/ PushBack(1, MaxPush)
    \/ PopFront(1)
    \/ PopBack(1)
    \/ PushPop(1, MaxPush)
    \/ Clear(1)
    \/ Resize(1)

Spec == Init /\ [][Next]_vars

\* The calls of Next without the explicit resize: the block only grows when
\* push_back finds the queue full.
NextAuto ==
    \/ PushBack(1, MaxPush)
    \/ PopFront(1)
    \/ PopBack(1)
    \/ PushPop(1, MaxPush)
    \/ Clear(1)

SpecAuto == Init /\ [][NextAuto]_vars

\* The same calls when malloc and realloc may return nullptr.
InitOOM == InitWith(TRUE)

SpecOOM == InitOOM /\ [][NextAuto]_vars

---------------------------------------------------------------------------
(* Calls that only look at the queue *)

\* What reading a sequence of elements can yield: the indeterminate ones
\* read as a value never pushed, or as the value pushed last.
SeqOutcomes(es) ==
    { [k \in 1..Len(es) |-> IF Indeterminate(es[k]) THEN Elem(pick) ELSE es[k]] :
        pick \in {0, npush} }

\* The state after a call on q that changes no member and left the view r.
Observe(q, r, op, arg, ret) ==
    /\ last' = [op |-> op, obj |-> q, err |-> r.err, ret |-> ret,
                grew |-> FALSE, arg |-> arg]
    /\ wild' = IF r.wild THEN wild + 1 ELSE wild
    /\ UNCHANGED <<esize, oom, life, mask_, start_, stop_, data_, heap, npush,
                   live, shape, nret, ngrow, ub, hung>>

\* A call on q whose loop never ends.
Hang(q, op) ==
    /\ hung' = TRUE
    /\ last' = [op |-> op, obj |-> q, err |-> "none", ret |-> <<>>,
                grew |-> FALSE, arg |-> 0]
    /\ UNCHANGED <<esize, oom, life, mask_, start_, stop_, data_, heap, npush,
                   live, shape, nret, ngrow, ub, wild>>

\* q.to_vector()
ToVector(q) ==
    /\ Usable(q)
    /\ \E r \in {to_vector(View(q))} :
         \E x \in SeqOutcomes(r.ret) : Observe(q, r, "to_vector", 0, x)

\* q.for_each(func)
ForEach(q) ==
    /\ Usable(q)
    /\ IF LoopEnds(View(q))
       THEN \E r \in {for_each(View(q))} :
              \E x \in SeqOutcomes(r.ret) : Observe(q, r, "for_each", 0, x)
       ELSE Hang(q, "for_each")

\* for(auto it = q.begin(); it != q.end(); ++it) use(*it)
Iterate(q) ==
    /\ Usable(q)
    /\ IF Len(Cursor(start_[q], stop_[q], mask_[q], Wrap + 1)) <= Wrap
       THEN \E r \in {iterate(View(q))} :
              \E x \in SeqOutcomes(r.ret) : Observe(q, r, "iterate", 0, x)
       ELSE Hang(q, "iterate")

\* q.front(), and a read through the reference
CallFront(q) ==
    /\ Usable(q)
    /\ \E r \in {front(View(q))} :
         \E x \in Outcomes(r.ret) : Observe(q, r, "front", FrontSlot(View(q)), x)

\* q.back(), and a read through the reference
CallBack(q) ==
    /\ Usable(q)
    /\ \E r \in {back(View(q))} :
         \E x \in Outcomes(r.ret) : Observe(q, r, "back", BackSlot(View(q)), x)

NextObs ==
    \/ PushBack(1, MaxPush)
    \/ PopFront(1)
    \/ PopBack(1)
    \/ PushPop(1, MaxPush)
    \/ Clear(1)
    \/ Resize(1)
    \/ ToVector(1)
    \/ ForEach(1)
    \/ Iterate(1)
    \/ CallFront(1)
    \/ CallBack(1)

SpecObs == Init /\ [][NextObs]_vars

---------------------------------------------------------------------------
(* Copies, moves and the end of an object's life *)

\* FastCircularQueue b(a), a being object 1 and b object 2.
CopyConstruct ==
    /\ Usable(1)
    /\ life[2] = "none"
    /\ \E ok \in AllocOutcomes :
         \E r \in {copy_construct(View(1), ok)} :
             /\ last' = [op |-> "copy", obj |-> 2, err |-> r.err, ret |-> <<>>,
                grew |-> FALSE, arg |-> 0]
             /\ shape' = "other"
             /\ nret' = 0
             /\ IF r.err # "none"
                THEN UNCHANGED <<life, mask_, start_, stop_, data_, heap, live,
                                 ub, wild>>
                ELSE /\ life' = [life EXCEPT ![2] = "live"]
                     /\ mask_' = [mask_ EXCEPT ![2] = r.mask]
                     /\ start_' = [start_ EXCEPT ![2] = r.start]
                     /\ stop_' = [stop_ EXCEPT ![2] = r.stop]
                     /\ data_' = [data_ EXCEPT ![2] = 2]
                     /\ heap' = [heap EXCEPT ![2] =
                                   [bytes |-> r.mem, made |-> TRUE, frees |-> 0]]
                     /\ live' = [live EXCEPT ![2] = live[1]]
                     /\ ub' = (ub \/ r.ub)
                     /\ wild' = IF r.wild THEN wild + 1 ELSE wild
             /\ UNCHANGED <<esize, oom, npush, ngrow, hung>>

\* FastCircularQueue b(std::move(a)): memcpy(this, &other), memset(&other, 0).
MoveConstruct ==
    /\ Usable(1)
    /\ life[2] = "none"
    /\ life' = [life EXCEPT ![2] = "live"]
    /\ mask_' = [mask_ EXCEPT ![2] = mask_[1], ![1] = 0]
    /\ start_' = [start_ EXCEPT ![2] = start_[1], ![1] = 0]
    /\ stop_' = [stop_ EXCEPT ![2] = stop_[1], ![1] = 0]
    /\ data_' = [data_ EXCEPT ![2] = data_[1], ![1] = 0]
    /\ live' = [live EXCEPT ![2] = live[1], ![1] = <<>>]
    /\ last' = [op |-> "move", obj |-> 2, err |-> "none", ret |-> <<>>,
                grew |-> FALSE, arg |-> 0]
    /\ shape' = "other"
    /\ nret' = 0
    /\ UNCHANGED <<esize, oom, heap, npush, ngrow, ub, wild, hung>>

\* std::free(p): free(nullptr) does nothing.
Released(h, p) == IF p = 0 THEN h ELSE [h EXCEPT ![p].frees = @ + 1]

\* free(): clear(), then std::free(data_); data_ keeps its value.
Release(q, op, after) ==
    /\ ~hung
    /\ last' = [op |-> op, obj |-> q, err |-> "none", ret |-> <<>>,
                grew |-> FALSE, arg |-> 0]
    /\ shape' = "other"
    /\ nret' = 0
    /\ IF LoopEnds(View(q))
       THEN /\ start_' = [start_ EXCEPT ![q] = 0]
            /\ stop_' = [stop_ EXCEPT ![q] = 0]
            /\ heap' = Released(heap, data_[q])
            /\ life' = [life EXCEPT ![q] = after]
            /\ live' = [live EXCEPT ![q] = <<>>]
            /\ UNCHANGED hung
       ELSE /\ hung' = TRUE
            /\ UNCHANGED <<start_, stop_, heap, life, live>>
    /\ UNCHANGED <<esize, oom, mask_, data_, npush, ngrow, ub, wild>>

\* q.free()
Free(q) == life[q] = "live" /\ Release(q, "free", "released")

\* ~FastCircularQueue(): this->free().
Destroy(q) == life[q] \in {"live", "released"} /\ Release(q, "destroy", "gone")

NextLife ==
    \/ \E q \in Objs : PushBack(q, LifePush)
    \/ \E q \in Objs : PopFront(q)
    \/ \E q \in Objs : PopBack(q)
    \/ \E q \in Objs : Clear(q)
    \/ CopyConstruct
    \/ MoveConstruct
    \/ \E q \in Objs : Free(q)
    \/ \E q \in Objs : Destroy(q)

SpecLife == Init /\ [][NextLife]_vars

---------------------------------------------------------------------------
(* The claims *)

IsPowerOfTwo(x) == \E k \in 0..IndexBits : x = 2^k

\* The number of slots of the block object q points to.
Slots(q) == Len(View(q).mem) \div esize

\* Object q is a queue in which nothing has gone wrong: its indices are in
\* range, no access has left a block, and popping from the front until it
\* is empty returns exactly the elements pushed and not yet removed.
Healthy(q) ==
    /\ life[q] = "live" /\ data_[q] # 0
    /\ ~ub /\ wild = 0 /\ ~hung
    /\ start_[q] <= mask_[q] /\ stop_[q] <= mask_[q]
    /\ Contents(q) = live[q]

\* C1: FIFO.  After any number of successful push_back calls on a fresh
\* queue, followed only by pop_front calls, the k-th pop_front returns the
\* k-th element pushed, no pop_front fails while elements remain, no access
\* leaves the block, and after as many pops as pushes the queue is empty.
C1_Fifo ==
    /\ (shape = "fifo" /\ last.op = "pop" /\ last.err = "none") =>
          /\ last.ret = Elem(nret)
          /\ nret <= npush
          /\ ~ub /\ wild = 0
          /\ nret = npush =>
                /\ start_[1] = stop_[1]
                /\ size(View(1)) = 0
                /\ live[1] = <<>>
    /\ (shape = "fifo" /\ nret < npush) => start_[1] # stop_[1]

\* C1 witness: three elements pushed across two growths and popped in order.
C1_Witness ==
    /\ shape = "fifo" /\ last.op = "pop" /\ last.err = "none"
    /\ npush = 3 /\ nret = 3 /\ ngrow = 2 /\ esize = 2

\* C2: a successful explicit resize leaves the sequence that repeated
\* pop_front calls return unchanged, and a push_back that grows the queue
\* changes it only by appending the pushed element.
C2_ResizePreservesContents ==
    [][ /\ (last'.op = "resize" /\ last'.err = "none")
            => Contents(1)' = Contents(1)
        /\ (last'.op = "push_back" /\ last'.err = "none" /\ last'.grew)
            => Contents(1)' = Append(Contents(1), Elem(npush')) ]_vars

\* C3: mask_ + 1 is a power of two and is the number of slots allocated.
C3_MaskIsAllocation ==
    life[1] = "live" =>
        /\ IsPowerOfTwo(mask_[1] + 1)
        /\ Slots(1) = mask_[1] + 1

\* C4: start_ and stop_ are in [0, mask_].
C4_IndicesInRange ==
    life[1] = "live" =>
        /\ start_[1] \in 0..mask_[1]
        /\ stop_[1] \in 0..mask_[1]

\* C5: after only push_back, pop_front and pop_back calls, when every
\* element pushed has been popped, pop_front and pop_back throw EmptyQueue
\* and change nothing, and size() is 0.
C5_EmptyPopThrows ==
    [][ (shape # "other" /\ live[1] = <<>> /\ last'.op \in {"pop", "pop_back"})
          => /\ last'.err = "EmptyQueue"
             /\ start_' = start_ /\ stop_' = stop_ /\ mask_' = mask_
             /\ size(View(1))' = 0 ]_vars

\* C6: pop_back on a non-empty queue in which nothing has gone wrong sets
\* stop_ to (stop_ - 1) & mask_, returns the element of that slot, which is
\* the last element pushed and still held, and leaves start_ and the other
\* elements as they were.
C6_PopBack ==
    [][ (Healthy(1) /\ live[1] # <<>> /\ last'.op = "pop_back")
          => /\ last'.err = "none"
             /\ stop_'[1] = BitAnd(Trunc(stop_[1] - 1), mask_[1])
             /\ last'.ret = LoadElem(View(1).mem, BitAnd(Trunc(stop_[1] - 1), mask_[1]))
             /\ last'.ret = live[1][Len(live[1])]
             /\ start_'[1] = start_[1]
             /\ Contents(1)' = Chop(live[1]) ]_vars

\* C7: LIFO.  After any number of successful push_back calls on a fresh
\* queue, followed only by pop_back calls, the k-th pop_back returns the
\* (N-k+1)-th element pushed, no pop_back fails while elements remain, no
\* access leaves the block, and after as many pops as pushes the queue is
\* empty.
C7_Lifo ==
    /\ (shape = "lifo" /\ last.op = "pop_back" /\ last.err = "none") =>
          /\ nret <= npush
          /\ last.ret = Elem(npush - nret + 1)
          /\ ~ub /\ wild = 0
          /\ nret = npush =>
                /\ start_[1] = stop_[1]
                /\ size(View(1)) = 0
                /\ live[1] = <<>>
    /\ (shape = "lifo" /\ nret < npush) => start_[1] # stop_[1]

\* C7 witness: three elements pushed across two growths and popped from the
\* back.
C7_Witness ==
    /\ shape = "lifo" /\ last.op = "pop_back" /\ last.err = "none"
    /\ npush = 3 /\ nret = 3 /\ ngrow = 2 /\ esize = 2

\* C8: growth policy.  On a fresh queue on which only push_back has been
\* called, after the N-th successful push_back size() is N; the push grew
\* the buffer if and only if size() was capacity() before it, the growth
\* doubles the number of slots (mask_ becomes 2 * (mask_ + 1) - 1, and that
\* many slots are allocated), and no other push changes mask_.
C8_Growth ==
    [][ (shape' = "push" /\ last'.op = "push_back" /\ last'.err = "none")
          => /\ size(View(1))' = npush'
             /\ (mask_'[1] # mask_[1]) <=> (size(View(1)) = capacity(View(1)))
             /\ (mask_'[1] # mask_[1]) =>
                    /\ mask_'[1] = 2 * (mask_[1] + 1) - 1
                    /\ Slots(1)' = 2 * Slots(1)
             /\ ~ub' /\ wild' = 0 ]_vars

\* C8 witness: a push_back on a full queue has just grown it for the second
\* time.
C8_Witness ==
    /\ shape = "push" /\ last.op = "push_back" /\ last.err = "none"
    /\ last.grew /\ ngrow = 2 /\ npush = 2

\* C9: no block is released twice, and once every object is destroyed every
\* block that was allocated has been released once.
C9_ReleasedOnce ==
    /\ \A a \in Objs : heap[a].frees <= 1
    /\ (\A q \in Objs : life[q] \in {"none", "gone"}) =>
          \A a \in Objs : heap[a].made => heap[a].frees = 1

\* C10: copy construction from a queue in which nothing has gone wrong
\* reads and writes inside the two blocks only and yields a queue with the
\* same contents, and a later push or pop on one of the two objects leaves
\* the size and the contents of the other unchanged.
C10_CopyIsolated ==
    [][ /\ (Healthy(1) /\ last'.op = "copy" /\ last'.err = "none")
            => /\ ~ub' /\ wild' = 0
               /\ Contents(2)' = Contents(1)
               /\ Contents(1)' = Contents(1)
        /\ (life[1] = "live" /\ life[2] = "live" /\ data_[1] # 0
            /\ last'.op \in {"push_back", "pop", "pop_back"})
            => \A q \in Objs :
                  q # last'.obj =>
                      /\ Contents(q)' = Contents(q)
                      /\ size(View(q))' = size(View(q)) ]_vars

\* C11: an explicit resize(target) with target < capacity() throws
\* InvalidResize and leaves mask_, start_, stop_, data_, the block and the
\* elements held as they were.
C11_InvalidResize ==
    [][ (last'.op = "resize" /\ last'.arg < capacity(View(1)))
          => /\ last'.err = "InvalidResize"
             /\ mask_' = mask_ /\ start_' = start_ /\ stop_' = stop_
             /\ data_' = data_ /\ heap' = heap
             /\ live' = live
             /\ Contents(1)' = Contents(1) ]_vars

\* C11 witness: a resize to a non-zero target below capacity() was rejected
\* on a queue that holds elements across the end of the block.
C11_Witness ==
    /\ last.op = "resize" /\ last.err = "InvalidResize"
    /\ last.arg > 0 /\ last.arg < mask_[1]
    /\ Healthy(1) /\ stop_[1] < start_[1]

\* C12: push_pop(v) on a queue that holds elements returns the oldest of
\* them, appends v, leaves size() and capacity() unchanged, does not grow
\* the block and stays inside it; on a queue that holds none it throws
\* EmptyQueue and does not insert v.
C12_PushPop ==
    [][ (last'.op = "push_pop") =>
          IF live[1] # <<>>
          THEN /\ last'.err = "none"
               /\ last'.ret = live[1][1]
               /\ Contents(1)' = Append(Tail(live[1]), Elem(npush'))
               /\ size(View(1))' = size(View(1))
               /\ capacity(View(1))' = capacity(View(1))
               /\ ~last'.grew
               /\ ~ub' /\ wild' = wild
          ELSE /\ last'.err = "EmptyQueue"
               /\ npush' = npush
               /\ start_' = start_ /\ stop_' = stop_ /\ mask_' = mask_
               /\ heap' = heap ]_vars

\* C13: to_vector() returns the elements held, oldest first, as many as
\* size(), reads inside the block only, and leaves start_, stop_ and mask_
\* (hence size()) unchanged.
C13_ToVector ==
    [][ (last'.op = "to_vector") =>
          /\ last'.err = "none"
          /\ last'.ret = live[1]
          /\ Len(last'.ret) = size(View(1))
          /\ wild' = wild
          /\ start_' = start_ /\ stop_' = stop_ /\ mask_' = mask_
          /\ size(View(1))' = size(View(1)) ]_vars

\* C14: on a queue that holds elements and in which nothing has gone wrong
\* (indices in range, a block of mask_ + 1 slots), front() refers to slot
\* start_, which holds the oldest element, and back() refers to slot
\* (stop_ - 1) & mask_, which holds the newest one, also when stop_ is 0;
\* neither refers to a slot outside the block.
C14_FrontBack ==
    [][ (Healthy(1) /\ Slots(1) = mask_[1] + 1 /\ live[1] # <<>>
         /\ last'.op \in {"front", "back"})
          => /\ wild' = wild
             /\ (last'.op = "front") =>
                    /\ last'.arg = start_[1]
                    /\ last'.ret = live[1][1]
             /\ (last'.op = "back") =>
                    /\ last'.arg = BitAnd(Trunc(stop_[1] - 1), mask_[1])
                    /\ last'.ret = live[1][Len(live[1])] ]_vars

\* C15: a successful explicit resize of a queue that is empty with
\* start_ = stop_ # 0 (and in which nothing has gone wrong) leaves it empty:
\* start_ = stop_, size() is 0, pop throws EmptyQueue, and no write leaves
\* the scratch buffer or the block.
C15_ResizeEmptyOffset ==
    [][ (Healthy(1) /\ Slots(1) = mask_[1] + 1
         /\ start_[1] = stop_[1] /\ start_[1] # 0
         /\ last'.op = "resize" /\ last'.err = "none")
          => /\ start_'[1] = stop_'[1]
             /\ size(View(1))' = 0
             /\ pop(View(1))'.err = "EmptyQueue"
             /\ ~ub' ]_vars

\* C16: while only push_back, pop_front, pop_back, push_pop and clear are
\* called, size() is the number of elements pushed and not yet popped or
\* cleared, and that number is at most capacity().
C16_SizeAccounting ==
    life[1] = "live" =>
        /\ size(View(1)) = Len(live[1])
        /\ Len(live[1]) <= capacity(View(1))

\* The slots start_, start_ + 1, ... (masked) of the size() elements held.
Occupied(v) ==
    [k \in 1..size(v) |-> BitAnd(Trunc(v.start + k - 1), v.mask)]

\* C17: in every reachable state the loops of for_each, to_vector and clear,
\* and a cursor stepped from begin() until it equals end(), end after
\* visiting exactly the size() slots start_, start_ + 1, ... (masked), in
\* that order; no call of them runs forever.
C17_TraversalEnds ==
    /\ ~hung
    /\ life[1] = "live" =>
          /\ LoopEnds(View(1))
          /\ Walk(start_[1], stop_[1], mask_[1], Wrap + 1) = Occupied(View(1))
          /\ Cursor(start_[1], stop_[1], mask_[1], Wrap + 1) = Occupied(View(1))

\* C18: a queue copy-constructed from a queue in which nothing has gone
\* wrong has start_ = 0 and stop_ = size() of the source, and holds the
\* source's elements, oldest first, in slots 0 .. size() - 1.
C18_CopyRelinearized ==
    [][ (Healthy(1) /\ last'.op = "copy" /\ last'.err = "none")
          => /\ start_'[2] = 0
             /\ stop_'[2] = size(View(1))
             /\ \A k \in 1..size(View(1)) :
                   LoadElem(heap'[2].bytes, k - 1) = live[1][k] ]_vars

\* C19: when push_back finds the queue full and the realloc of the growth,
\* or the malloc of the scratch buffer of a wrapped queue, fails, push_back
\* throws AllocationFailure; and a push_back that throws AllocationFailure
\* has not inserted the value and leaves start_, stop_, mask_, size() and
\* the sequence pop_front would return as they were.
C19_PushAllocFailure ==
    [][ (last'.op = "push_back") =>
          /\ (/\ IsFull(View(1))
              /\ ~TooSmall(Trunc(Trunc(mask_[1] + 1) * 2), mask_[1])
              /\ \/ last'.arg \in {1, 3}
                 \/ last'.arg = 2 /\ stop_[1] < start_[1])
                => last'.err = "AllocationFailure"
          /\ (last'.err = "AllocationFailure")
                => /\ npush' = npush /\ live' = live
                   /\ start_' = start_ /\ stop_' = stop_ /\ mask_' = mask_
                   /\ size(View(1))' = size(View(1))
                   /\ Contents(1)' = Contents(1) ]_vars

\* C19 witness: the malloc of the scratch buffer failed while push_back was
\* growing a full queue whose elements wrap around the end of the block.
C19_Witness ==
    /\ last.op = "push_back" /\ last.err = "AllocationFailure"
    /\ last.arg = 2
    /\ stop_[1] < start_[1] /\ IsFull(View(1))
    /\ Healthy(1) /\ Len(live[1]) = 1 /\ esize = 2
    /\ Slots(1) = 2 * (mask_[1] + 1)

\* C20: a push_back on a full queue whose doubled number of slots,
\* 2 * (mask_ + 1), is not representable in SizeType throws InvalidResize,
\* does not insert the value, and leaves start_, stop_, mask_, the block and
\* the elements held as they were.
C20_DoublingOverflow ==
    [][ (last'.op = "push_back" /\ IsFull(View(1))
         /\ 2 * (mask_[1] + 1) >= Wrap)
          => /\ last'.err = "InvalidResize"
             /\ npush' = npush /\ live' = live
             /\ start_' = start_ /\ stop_' = stop_ /\ mask_' = mask_
             /\ data_' = data_ /\ heap' = heap
             /\ ~ub'
             /\ Contents(1)' = Contents(1) ]_vars

\* C20 witness: a queue grown by push_back alone to half the range of
\* SizeType is full, and the next push_back was rejected.
C20_Witness ==
    /\ last.op = "push_back" /\ last.err = "InvalidResize"
    /\ shape = "push" /\ Healthy(1)
    /\ mask_[1] + 1 = 2^(IndexBits - 1)
    /\ Len(live[1]) = mask_[1]

===========================================================================
